---- MODULE Spec2Model ----
(***************************************************************************)
(* PDSA Games Portal dashboard (src/dashboard.py).                         *)
(*                                                                         *)
(* The model covers the persisted settings store (SETTINGS, a QSettings),  *)
(* the profile widget, the theme switcher, the game filter and the launch  *)
(* handler of the dashboard window.  Every action is one complete handler  *)
(* of the single-threaded Qt event loop.                                   *)
(*                                                                         *)
(* The store keeps the objects given to setValue.  SETTINGS.value hands a  *)
(* stored object back as it was set in the process that set it; a process  *)
(* that loaded the store from its INI file gets the file's text instead    *)
(* (the integer 3 comes back as "3").  from_disk holds the keys read that  *)
(* way, ValueRead is what a read site gets, and int(...) and str(...) at   *)
(* the read sites are modelled by IntOf and StrOf on either form.          *)
(* StoreSpec explores the restarts from the file; the other specifications *)
(* restart on the objects, which is what the read sites make of the text.  *)
(***************************************************************************)
EXTENDS Integers, Sequences, FiniteSets, TLC

VARIABLES
    store,            \* SETTINGS: the set keys and their values
    last_set,         \* history: for each key, the value of its latest setValue
    from_disk,        \* integer keys whose value this process reads as file text
    name_label,       \* UserProfileWidget.name_label text
    level_label,      \* UserProfileWidget.level_label text
    games_label,      \* UserProfileWidget.games_label text (decimal digits)
    progress_bar,     \* UserProfileWidget.progress_bar value
    current_theme,    \* ThemeSwitcher.current_theme
    applied_theme,    \* theme whose style sheet DashboardWindow.apply_theme set
    category_combo,   \* GameFilterWidget.category_combo current text
    difficulty_combo, \* GameFilterWidget.difficulty_combo current text
    search_input,     \* GameFilterWidget.search_input text
    visible,          \* per game card: the flag given to setVisible
    last_launch,      \* what the handler just run did if it was a launch, else NoLaunch
    spawn_ok,         \* history: number of Popen calls that returned
    spawn_failed,     \* history: number of Popen calls that raised
    children,         \* number of spawned game processes still running
    exit_status       \* <<>> while the dashboard process runs, else how it ended

vars == <<store, last_set, from_disk, name_label, level_label, games_label, progress_bar,
          current_theme, applied_theme, category_combo, difficulty_combo,
          search_input, visible, last_launch, spawn_ok, spawn_failed, children,
          exit_status>>

profile_vars == <<name_label, level_label, games_label, progress_bar>>
theme_vars == <<current_theme, applied_theme>>
filter_vars == <<category_combo, difficulty_combo, search_input, visible>>
history_vars == <<spawn_ok, spawn_failed, children>>
\* everything the dashboard holds: the store, the widgets and the themes
dashboard_vars == <<store, profile_vars, theme_vars, filter_vars>>

----------------------------------------------------------------------------
(* Bounds                                                                  *)

\* ProfileSpec explores launches while profile/games_played is below this value
MaxGames == 16
\* Spec and SeededSpec explore launches while it is below this value
MaxSession == 3
MaxClimb == 21

----------------------------------------------------------------------------
(* Program constants                                                       *)

DefaultProgress == 25
DefaultGames == 0
ProgressIncrement == 5
ProgressMax == 100

\* the defaults the launch handler passes to SETTINGS.value
LaunchDefaultGames == 0

\* a launch that passes the games default for the progress as well
LaunchDefaultProgress_AsGames == LaunchDefaultGames

\* the default the launch handler passes for profile/level_progress
LaunchDefaultProgress == 25

DefaultName == "Guest User"
DefaultLevel == "Beginner"
DefaultTheme == "dark"
DefaultAccent == "#3D5AFE"

Levels == {"Beginner", "Intermediate", "Advanced", "Expert"}

K_NAME == "profile/name"
K_LEVEL == "profile/level"
K_GAMES == "profile/games_played"
K_PROGRESS == "profile/level_progress"
K_THEME == "theme"
K_COLOR == "custom_theme_color"

Keys == {K_NAME, K_LEVEL, K_GAMES, K_PROGRESS, K_THEME, K_COLOR}

\* the name the user types into the edit dialog
Names == {"Ada"}
\* colours the user picks in the colour dialog (QColor.name())
Colors == {"#ff0000"}

----------------------------------------------------------------------------
(* SETTINGS = QSettings("PdsaGamesPortal", "Dashboard")                     *)

EmptyStore == [k \in {} |-> 0]

\* SETTINGS.value(key, default)
Value(s, k, d) == IF k \in DOMAIN s THEN s[k] ELSE d

\* SETTINGS.setValue(key, value)
SetValue(s, k, v) == [x \in (DOMAIN s) \cup {k} |-> IF x = k THEN v ELSE s[x]]

Min(a, b) == IF a <= b THEN a ELSE b

Digit(n) == CASE n = 0 -> "0" [] n = 1 -> "1" [] n = 2 -> "2" [] n = 3 -> "3"
              [] n = 4 -> "4" [] n = 5 -> "5" [] n = 6 -> "6" [] n = 7 -> "7"
              [] n = 8 -> "8" [] n = 9 -> "9"

\* last_launch when the handler just run was not a launch; no dialog shown
NoLaunch == [game |-> "none"]
NoDialog == <<>>

\* exit_status while the process runs
NotExited == <<>>

\* the dashboard process is alive and its event loop dispatches handlers: it
\* has not exited, and no exception left a slot (PyQt5 aborts the process on
\* an exception that leaves a slot)
Running ==
    /\ exit_status = NotExited
    /\ (IF last_launch = NoLaunch THEN TRUE ELSE ~last_launch.propagated)

RECURSIVE Str(_)
\* str(n) for a non-negative integer: its decimal digits
Str(n) == IF n < 10 THEN <<Digit(n)>> ELSE Append(Str(n \div 10), Digit(n % 10))

DigitValue(c) == CASE c = "0" -> 0 [] c = "1" -> 1 [] c = "2" -> 2 [] c = "3" -> 3
                   [] c = "4" -> 4 [] c = "5" -> 5 [] c = "6" -> 6 [] c = "7" -> 7
                   [] c = "8" -> 8 [] c = "9" -> 9

RECURSIVE ParseInt(_)
\* int(t) for a text of decimal digits
ParseInt(t) ==
    IF Len(t) = 1 THEN DigitValue(t[1])
    ELSE 10 * ParseInt(SubSeq(t, 1, Len(t) - 1)) + DigitValue(t[Len(t)])

\* the keys whose values are integers: the INI file holds them as text
IntKeys == {K_GAMES, K_PROGRESS}

\* the keys a process that loaded store s from its INI file reads as text
TextKeys(s) == (DOMAIN s) \cap IntKeys

\* SETTINGS.value(key, default) as the read site gets it, fd being the keys
\* read as file text: the default or the object set, or the text of the object
ValueRead(s, fd, k, d) ==
    IF k \in DOMAIN s /\ k \in fd
    THEN [form |-> "text", value |-> Str(s[k])]
    ELSE [form |-> "object", value |-> Value(s, k, d)]

\* an int(...) that takes file text for a missing value
IntOf_TextAsZero(r) == IF r.form = "text" THEN 0 ELSE r.value

\* int(SETTINGS.value(...)): the integer itself, or the text parsed
IntOf(r) == IF r.form = "text" THEN ParseInt(r.value) ELSE r.value

\* str(SETTINGS.value(...)): the text itself, or the integer's digits
StrOf(r) == IF r.form = "text" THEN r.value ELSE Str(r.value)


----------------------------------------------------------------------------
(* UserProfileWidget                                                       *)

\* a level label that ignores the stored level
LoadLevel_Default(s) == DefaultLevel

\* progress_bar.setRange(0, 100) and setValue(25) in the widget's constructor
BarMinimum == 0
BarMaximum == 100
BarInitial == 25

\* QProgressBar.setValue(value) on a bar showing shown: a value outside the
\* range is ignored
BarSetValue(shown, value) ==
    IF value < BarMinimum \/ value > BarMaximum THEN shown ELSE value

\* a progress bar that ignores the stored progress
LoadProgress_Default(s, fd) == DefaultProgress

\* load_profile: the four widget values read from the store
LoadName(s) == Value(s, K_NAME, DefaultName)
LoadLevel(s) == Value(s, K_LEVEL, DefaultLevel)
LoadGames(s, fd) == StrOf(ValueRead(s, fd, K_GAMES, DefaultGames))
LoadProgress(s, fd) ==
    BarSetValue(BarInitial, IntOf(ValueRead(s, fd, K_PROGRESS, DefaultProgress)))

\* a save that starts the level over: progress written as 0 as well
SaveProfile_Reset(name, level) ==
    /\ Running
    /\ name_label' = name
    /\ level_label' = level
    /\ progress_bar' = 0
    /\ store' = SetValue(SetValue(SetValue(store, K_NAME, name), K_LEVEL, level),
                         K_PROGRESS, 0)
    /\ last_set' = [last_set EXCEPT ![K_NAME] = <<name>>, ![K_LEVEL] = <<level>>,
                                    ![K_PROGRESS] = <<0>>]
    /\ from_disk' = from_disk \ {K_NAME, K_LEVEL, K_PROGRESS}
    /\ last_launch' = NoLaunch
    /\ UNCHANGED <<games_label, theme_vars, filter_vars, history_vars, exit_status>>

\* edit_profile, Save pressed: save_profile(dialog, name, level)
SaveProfile(name, level) ==
    /\ Running
    /\ name_label' = name
    /\ level_label' = level
    /\ store' = SetValue(SetValue(store, K_NAME, name), K_LEVEL, level)
    /\ last_set' = [last_set EXCEPT ![K_NAME] = <<name>>, ![K_LEVEL] = <<level>>]
    /\ from_disk' = from_disk \ {K_NAME, K_LEVEL}
    /\ last_launch' = NoLaunch
    /\ UNCHANGED <<games_label, progress_bar, theme_vars, filter_vars, history_vars, exit_status>>

\* edit_profile, Cancel pressed: dialog.reject
CancelEdit ==
    /\ Running
    /\ last_launch' = NoLaunch
    /\ UNCHANGED <<store, last_set, from_disk, profile_vars, theme_vars, filter_vars,
                   history_vars, exit_status>>

----------------------------------------------------------------------------
(* ThemeSwitcher and DashboardWindow.apply_theme                           *)

\* apply_theme(theme_name): the style sheet chosen, with its accent colour
ApplyTheme(theme_name, s) ==
    IF theme_name = "dark" THEN <<"dark">>
    ELSE IF theme_name = "light" THEN <<"light">>
    ELSE <<"custom", Value(s, K_COLOR, DefaultAccent)>>

\* a theme change that is applied but not written to the store
ChangeThemeOn_NoSave(s, theme_name) ==
    /\ current_theme' = theme_name
    /\ store' = s
    /\ applied_theme' = ApplyTheme(theme_name, store')

\* change_theme(theme_name) on a store s; themeChanged is connected to apply_theme
ChangeThemeOn(s, theme_name) ==
    /\ current_theme' = theme_name
    /\ store' = SetValue(s, K_THEME, theme_name)
    /\ applied_theme' = ApplyTheme(theme_name, store')

\* dark_btn / light_btn clicked
ChangeTheme(theme_name) ==
    /\ Running
    /\ ChangeThemeOn(store, theme_name)
    /\ last_set' = [last_set EXCEPT ![K_THEME] = <<theme_name>>]
    /\ from_disk' = from_disk \ {K_THEME}
    /\ last_launch' = NoLaunch
    /\ UNCHANGED <<profile_vars, filter_vars, history_vars, exit_status>>

\* custom_btn clicked, a valid colour chosen
OpenCustomTheme(color) ==
    /\ Running
    /\ ChangeThemeOn(SetValue(store, K_COLOR, color), "custom")
    /\ last_set' = [last_set EXCEPT ![K_COLOR] = <<color>>, ![K_THEME] = <<"custom">>]
    /\ from_disk' = from_disk \ {K_COLOR, K_THEME}
    /\ last_launch' = NoLaunch
    /\ UNCHANGED <<profile_vars, filter_vars, history_vars, exit_status>>

\* custom_btn clicked, the colour dialog cancelled (color.isValid() is false)
CancelCustomTheme ==
    /\ Running
    /\ last_launch' = NoLaunch
    /\ UNCHANGED <<store, last_set, from_disk, profile_vars, theme_vars, filter_vars,
                   history_vars, exit_status>>

----------------------------------------------------------------------------
(* DashboardWindow: launching                                              *)

Games == {"eight_queens", "knights_tour", "tic_tac_toe", "tower_of_hanoi",
          "traveling_salesman"}

\* game_name passed by launch_<game>
GameName(g) ==
    CASE g = "eight_queens" -> "Eight Queens Puzzle"
      [] g = "knights_tour" -> "Knight's Tour"
      [] g = "tic_tac_toe" -> "Tic Tac Toe"
      [] g = "tower_of_hanoi" -> "Tower of Hanoi"
      [] g = "traveling_salesman" -> "Traveling Salesman"

\* every card starting the same script
ScriptPath_Same(g) == <<"games", "eight_queen_game", "main.py">>

\* script_path passed by launch_<game>, relative to the dashboard's directory
ScriptPath(g) ==
    CASE g = "eight_queens" -> <<"games", "eight_queen_game", "main.py">>
      [] g = "knights_tour" -> <<"games", "knights_tour_game", "main.py">>
      [] g = "tic_tac_toe" -> <<"games", "tic_tac_toe_game", "main.py">>
      [] g = "tower_of_hanoi" -> <<"games", "tower_of_hanoi_game", "main.py">>
      [] g = "traveling_salesman" -> <<"games", "traveling_salesman_game", "main.py">>

VenvPython == <<"pdsa_env", "bin", "python">>
SysExecutable == <<"sys.executable">>

\* what subprocess.Popen does: returns, or raises one of these
PopenRaises == {"FileNotFoundError", "PermissionError"}
PopenResults == {"ok"} \cup PopenRaises

\* QMessageBox is a local name of launch_game_with_dependencies (bound by the
\* import in the except block), so reading it in the try block raises this
LevelUpRaises == "UnboundLocalError"

\* no fallback: the bundled path is used whether or not it exists
ResolveInterpreter_NoFallback(venv_exists) == VenvPython

\* the interpreter chosen, given os.path.exists(venv_python)
ResolveInterpreter(venv_exists) ==
    IF venv_exists THEN VenvPython ELSE SysExecutable

\* a counter that counts down
NextCount_Down(current_count) == current_count - 1

\* the counter written twice
NextCount_Twice(current_count) == current_count + 2

\* current_count + 1
NextCount(current_count) == current_count + 1

\* a handler that loses the increment
NewProgress_Stuck(current_progress) == Min(ProgressMax, current_progress)

\* the increment without the clamp
NewProgress_NoClamp(current_progress) == current_progress + ProgressIncrement

\* a different increment
NewProgress_Ten(current_progress) == Min(ProgressMax, current_progress + 10)

\* new_progress = min(100, current_progress + 5)
NewProgress(current_progress) ==
    Min(ProgressMax, current_progress + ProgressIncrement)

\* a handler that never promotes
LevelUp_Never(new_progress, level_text) == FALSE

\* the level-up test without the level check
LevelUp_AnyLevel(new_progress, level_text) == new_progress >= ProgressMax

\* the level-up test
LevelUp(new_progress, level_text) ==
    new_progress >= ProgressMax /\ level_text = "Beginner"

\* level-up that keeps the progress
ResetProgress_Keep(new_progress) == new_progress

\* the progress written on level-up
ResetProgress(new_progress) == 0

\* the handler waits for the child, which is gone when the handler returns
SpawnedChildren_Wait(n) == n

\* subprocess.Popen returned: one more child runs; the handler neither waits
\* for it nor keeps its handle
SpawnedChildren(n) == n + 1

\* the classes of objects that can be raised and the bases of each: the
\* built-in exception classes, asyncio.CancelledError and the classes of
\* subprocess; BaseException is the root
ClassBases ==
    { <<"ArithmeticError", "Exception">>, <<"AssertionError", "Exception">>,
      <<"AttributeError", "Exception">>,
      <<"BaseExceptionGroup", "BaseException">>,
      <<"BlockingIOError", "OSError">>,
      <<"BrokenPipeError", "ConnectionError">>,
      <<"BufferError", "Exception">>, <<"BytesWarning", "Warning">>,
      <<"CalledProcessError", "SubprocessError">>,
      <<"CancelledError", "BaseException">>,
      <<"ChildProcessError", "OSError">>,
      <<"ConnectionAbortedError", "ConnectionError">>,
      <<"ConnectionError", "OSError">>,
      <<"ConnectionRefusedError", "ConnectionError">>,
      <<"ConnectionResetError", "ConnectionError">>,
      <<"DeprecationWarning", "Warning">>, <<"EOFError", "Exception">>,
      <<"EncodingWarning", "Warning">>, <<"Exception", "BaseException">>,
      <<"ExceptionGroup", "BaseExceptionGroup">>,
      <<"ExceptionGroup", "Exception">>, <<"FileExistsError", "OSError">>,
      <<"FileNotFoundError", "OSError">>,
      <<"FloatingPointError", "ArithmeticError">>,
      <<"FutureWarning", "Warning">>, <<"GeneratorExit", "BaseException">>,
      <<"ImportError", "Exception">>, <<"ImportWarning", "Warning">>,
      <<"IndentationError", "SyntaxError">>, <<"IndexError", "LookupError">>,
      <<"InterruptedError", "OSError">>, <<"IsADirectoryError", "OSError">>,
      <<"KeyError", "LookupError">>, <<"KeyboardInterrupt", "BaseException">>,
      <<"LookupError", "Exception">>, <<"MemoryError", "Exception">>,
      <<"ModuleNotFoundError", "ImportError">>, <<"NameError", "Exception">>,
      <<"NotADirectoryError", "OSError">>,
      <<"NotImplementedError", "RuntimeError">>, <<"OSError", "Exception">>,
      <<"OverflowError", "ArithmeticError">>,
      <<"PendingDeprecationWarning", "Warning">>,
      <<"PermissionError", "OSError">>, <<"ProcessLookupError", "OSError">>,
      <<"RecursionError", "RuntimeError">>, <<"ReferenceError", "Exception">>,
      <<"ResourceWarning", "Warning">>, <<"RuntimeError", "Exception">>,
      <<"RuntimeWarning", "Warning">>, <<"StopAsyncIteration", "Exception">>,
      <<"StopIteration", "Exception">>, <<"SubprocessError", "Exception">>,
      <<"SyntaxError", "Exception">>, <<"SyntaxWarning", "Warning">>,
      <<"SystemError", "Exception">>, <<"SystemExit", "BaseException">>,
      <<"TabError", "IndentationError">>, <<"TimeoutError", "OSError">>,
      <<"TimeoutExpired", "SubprocessError">>, <<"TypeError", "Exception">>,
      <<"UnboundLocalError", "NameError">>,
      <<"UnicodeDecodeError", "UnicodeError">>,
      <<"UnicodeEncodeError", "UnicodeError">>,
      <<"UnicodeError", "ValueError">>,
      <<"UnicodeTranslateError", "UnicodeError">>,
      <<"UnicodeWarning", "Warning">>, <<"UserWarning", "Warning">>,
      <<"ValueError", "Exception">>, <<"Warning", "Exception">>,
      <<"ZeroDivisionError", "ArithmeticError">> }

RECURSIVE Ancestors(_)
\* a class and the classes it derives from
Ancestors(c) == {c} \cup UNION {Ancestors(p[2]) : p \in {q \in ClassBases : q[1] = c}}

\* Exception and the classes that derive from it
ExceptionClasses ==
    {c \in {"Exception"} \cup {p[1] : p \in ClassBases} : "Exception" \in Ancestors(c)}

\* an except clause that catches only the missing-file error
Catches_OnlyNotFound(e) == e = "FileNotFoundError"

\* except Exception as e: an object is caught when its class is Exception or
\* derives from it
Catches(e) == e \in ExceptionClasses

\* the box without the cause
ErrorDialog_NoCause(game_name, e) ==
    <<"Launch Error", <<"Error launching ", game_name>>, "">>

\* the except block: the modal "Launch Error" box
ErrorDialog(game_name, e) ==
    <<"Launch Error", <<"Error launching ", game_name>>, e>>

\* a failed spawn tried again with the system interpreter
PopenCalls_Retry(venv_python, script_path, popen) ==
    IF popen # "ok"
    THEN <<<<venv_python, script_path>>, <<SysExecutable, script_path>>>>
    ELSE <<<<venv_python, script_path>>>>

\* the argument lists of the handler's subprocess.Popen calls, in order:
\* one call, [venv_python, script_path], whatever Popen then does
PopenCalls(venv_python, script_path, popen) == <<<<venv_python, script_path>>>>

\* the progress written before the spawn as well
WrittenBeforeSpawn_Progress(s, count) ==
    SetValue(SetValue(s, K_GAMES, count), K_PROGRESS,
             NewProgress(Value(s, K_PROGRESS, LaunchDefaultProgress)))

\* the store as the handler has written it when it calls Popen
WrittenBeforeSpawn(s, count) == SetValue(s, K_GAMES, count)

\* launch_game_with_dependencies(game_name, script_path, ...) with the
\* environment's answers: does pdsa_env/bin/python exist, does the script
\* exist (the handler never asks), what does Popen do.
\* last_launch keeps what the handler did: the command given to Popen, the
\* number of Popen calls, Popen's answer, the progress and level text it read,
\* whether an exception left the handler, and the dialog it showed.
LaunchGame(g, venv_exists, script_exists, popen) ==
    LET game_name == GameName(g)
        script_path == ScriptPath(g)
        current_count == IntOf(ValueRead(store, from_disk, K_GAMES, LaunchDefaultGames))
        s1 == WrittenBeforeSpawn(store, NextCount(current_count))
        venv_python == ResolveInterpreter(venv_exists)
        calls == PopenCalls(venv_python, script_path, popen)
        current_progress ==
            IntOf(ValueRead(s1, from_disk, K_PROGRESS, LaunchDefaultProgress))
        new_progress == NewProgress(current_progress)
        s2 == SetValue(s1, K_PROGRESS, new_progress)
        rec == [game |-> game_name, venv_found |-> venv_exists,
                script_found |-> script_exists,
                warned |-> ~venv_exists,
                cmd |-> calls[1], spawns |-> Len(calls),
                popen |-> popen, progress_read |-> <<>>,
                level_text |-> level_label,
                propagated |-> FALSE, dialog |-> NoDialog]
        ok == [rec EXCEPT !.progress_read = <<current_progress>>]
        \* the except block, entered with the raised object e
        Except(r, e) == IF Catches(e)
                        THEN [r EXCEPT !.dialog = ErrorDialog(game_name, e)]
                        ELSE [r EXCEPT !.propagated = TRUE]
    IN  IF popen # "ok"
        THEN \* Popen raised: straight to the except block
             /\ store' = s1
             /\ last_set' = [last_set EXCEPT ![K_GAMES] = <<NextCount(current_count)>>]
             /\ from_disk' = from_disk \ {K_GAMES}
             /\ last_launch' = Except(rec, popen)
             /\ spawn_failed' = spawn_failed + 1
             /\ UNCHANGED <<profile_vars, spawn_ok, children>>
        ELSE IF LevelUp(new_progress, level_label)
        THEN /\ store' = SetValue(SetValue(s2, K_LEVEL, "Intermediate"),
                                  K_PROGRESS, ResetProgress(new_progress))
             /\ last_set' = [last_set EXCEPT ![K_GAMES] = <<NextCount(current_count)>>,
                                             ![K_PROGRESS] = <<ResetProgress(new_progress)>>,
                                             ![K_LEVEL] = <<"Intermediate">>]
             /\ from_disk' = from_disk \ {K_GAMES, K_PROGRESS, K_LEVEL}
             /\ level_label' = "Intermediate"
             /\ progress_bar' = BarSetValue(BarSetValue(progress_bar, new_progress),
                                              ResetProgress(new_progress))
             \* QMessageBox.information raises; the except block shows its box
             /\ last_launch' = Except(ok, LevelUpRaises)
             /\ spawn_ok' = spawn_ok + 1
             /\ children' = SpawnedChildren(children)
             /\ UNCHANGED spawn_failed
             /\ UNCHANGED <<name_label, games_label>>
        ELSE /\ store' = s2
             /\ last_set' = [last_set EXCEPT ![K_GAMES] = <<NextCount(current_count)>>,
                                             ![K_PROGRESS] = <<new_progress>>]
             /\ from_disk' = from_disk \ {K_GAMES, K_PROGRESS}
             /\ progress_bar' = BarSetValue(progress_bar, new_progress)
             /\ last_launch' = ok
             /\ spawn_ok' = spawn_ok + 1
             /\ children' = SpawnedChildren(children)
             /\ UNCHANGED spawn_failed
             /\ UNCHANGED <<name_label, level_label, games_label>>

\* a card's START GAME button clicked
Launch(g, venv_exists, script_exists, popen) ==
    /\ Running
    /\ Value(store, K_GAMES, DefaultGames) < MaxSession
    /\ LaunchGame(g, venv_exists, script_exists, popen)
    /\ UNCHANGED <<theme_vars, filter_vars, exit_status>>

\* the same click, explored over a long run of launches
LaunchLong(g, venv_exists, script_exists, popen) ==
    /\ Running
    /\ Value(store, K_GAMES, DefaultGames) < MaxGames
    /\ LaunchGame(g, venv_exists, script_exists, popen)
    /\ UNCHANGED <<theme_vars, filter_vars, exit_status>>


----------------------------------------------------------------------------
(* Text: strings that are searched are sequences of characters             *)

\* the capitals among the characters a string can hold here (Latin-1): A..Z
\* and the accented capitals, each with the character str.lower() gives
UpperChars ==
    <<"A","B","C","D","E","F","G","H","I","J","K","L","M","N","O","P","Q",
      "R","S","T","U","V","W","X","Y","Z","À","Á","Â","Ã","Ä","Å","Æ","Ç",
      "È","É","Ê","Ë","Ì","Í","Î","Ï","Ð","Ñ","Ò","Ó","Ô","Õ","Ö","Ø","Ù",
      "Ú","Û","Ü","Ý","Þ">>
LowerChars ==
    <<"a","b","c","d","e","f","g","h","i","j","k","l","m","n","o","p","q",
      "r","s","t","u","v","w","x","y","z","à","á","â","ã","ä","å","æ","ç",
      "è","é","ê","ë","ì","í","î","ï","ð","ñ","ò","ó","ô","õ","ö","ø","ù",
      "ú","û","ü","ý","þ">>

\* the printable Latin-1 characters that are not capitals (but for the grave
\* accent, which no string of this module can hold): str.lower() leaves each
\* of them as it is
OtherChars ==
    {" ","!","\"","#","$","%","&","'","(",")","*","+",",","-",".","/","0",
     "1","2","3","4","5","6","7","8","9",":",";","<","=",">","?","@","[",
     "\\","]","^","_","a","b","c","d","e","f","g","h","i","j","k","l",
     "m","n","o","p","q","r","s","t","u","v","w","x","y","z","{","|","}",
     "~","¡","¢","£","¤","¥","¦","§","¨","©","ª","«","¬","®","¯","°","±",
     "²","³","´","µ","¶","·","¸","¹","º","»","¼","½","¾","¿","×","ß","à",
     "á","â","ã","ä","å","æ","ç","è","é","ê","ë","ì","í","î","ï","ð","ñ",
     "ò","ó","ô","õ","ö","÷","ø","ù","ú","û","ü","ý","þ","ÿ"}

\* one character of str.lower(), for the printable characters of Latin-1: a
\* capital becomes its small letter, every other character stays
LowerChar(c) ==
    CASE \E i \in 1..Len(UpperChars) : UpperChars[i] = c ->
            LowerChars[CHOOSE i \in 1..Len(UpperChars) : UpperChars[i] = c]
      [] c \in OtherChars -> c

\* str.lower()
Lower(t) == [i \in 1..Len(t) |-> LowerChar(t[i])]

\* needle in hay
Contains(hay, needle) ==
    \E i \in 1..(Len(hay) - Len(needle) + 1) :
        SubSeq(hay, i, i + Len(needle) - 1) = needle

----------------------------------------------------------------------------
(* Game cards (create_game_cards) and the filter                           *)

\* text of the card's "gameTitle" label
CardTitle(g) ==
    CASE g = "eight_queens" ->
        <<"E","i","g","h","t"," ","Q","u","e","e","n","s"," ","P","u","z",
          "z","l","e">>
      [] g = "knights_tour" ->
        <<"K","n","i","g","h","t","'","s"," ","T","o","u","r">>
      [] g = "tic_tac_toe" ->
        <<"T","i","c"," ","T","a","c"," ","T","o","e">>
      [] g = "tower_of_hanoi" ->
        <<"T","o","w","e","r"," ","o","f"," ","H","a","n","o","i">>
      [] g = "traveling_salesman" ->
        <<"T","r","a","v","e","l","i","n","g"," ","S","a","l","e","s","m",
          "a","n">>

\* text of the card's "gameDescription" label
CardDesc(g) ==
    CASE g = "eight_queens" ->
        <<"P","l","a","c","e"," ","e","i","g","h","t"," ","q","u","e","e",
          "n","s"," ","o","n"," ","a"," ","c","h","e","s","s","b","o","a",
          "r","d"," ","s","o"," ","t","h","a","t"," ","n","o"," ","q","u",
          "e","e","n"," ","c","a","n"," ","a","t","t","a","c","k"," ","a",
          "n","o","t","h","e","r"," ","q","u","e","e","n",".">>
      [] g = "knights_tour" ->
        <<"F","i","n","d"," ","a"," ","s","e","q","u","e","n","c","e"," ",
          "o","f"," ","m","o","v","e","s"," ","f","o","r"," ","a"," ","k",
          "n","i","g","h","t"," ","t","o"," ","v","i","s","i","t"," ","e",
          "v","e","r","y"," ","s","q","u","a","r","e"," ","o","n"," ","a",
          " ","c","h","e","s","s","b","o","a","r","d"," ","e","x","a","c",
          "t","l","y"," ","o","n","c","e",".">>
      [] g = "tic_tac_toe" ->
        <<"C","l","a","s","s","i","c"," ","g","a","m","e"," ","w","i","t",
          "h"," ","A","I"," ","o","p","p","o","n","e","n","t","s"," ","u",
          "s","i","n","g"," ","M","i","n","i","m","a","x"," ","a","n","d",
          " ","A","l","p","h","a","-","B","e","t","a"," ","p","r","u","n",
          "i","n","g"," ","a","l","g","o","r","i","t","h","m","s",".">>
      [] g = "tower_of_hanoi" ->
        <<"M","o","v","e"," ","d","i","s","k","s"," ","f","r","o","m"," ",
          "o","n","e"," ","r","o","d"," ","t","o"," ","a","n","o","t","h",
          "e","r"," ","f","o","l","l","o","w","i","n","g"," ","s","p","e",
          "c","i","f","i","c"," ","r","u","l","e","s",".">>
      [] g = "traveling_salesman" ->
        <<"F","i","n","d"," ","t","h","e"," ","s","h","o","r","t","e","s",
          "t"," ","r","o","u","t","e"," ","t","o"," ","v","i","s","i","t",
          " ","a","l","l"," ","c","i","t","i","e","s"," ","a","n","d"," ",
          "r","e","t","u","r","n"," ","t","o"," ","t","h","e"," ","s","t",
          "a","r","t","i","n","g"," ","p","o","i","n","t",".">>

\* the card's "category" property
CardCategory(g) ==
    CASE g = "eight_queens" -> "Board Games"
      [] g = "knights_tour" -> "Pathfinding"
      [] g = "tic_tac_toe" -> "Board Games"
      [] g = "tower_of_hanoi" -> "Optimization"
      [] g = "traveling_salesman" -> "Optimization"

\* the card's "difficulty" property
CardDifficulty(g) ==
    CASE g = "eight_queens" -> "Medium"
      [] g = "knights_tour" -> "Hard"
      [] g = "tic_tac_toe" -> "Easy"
      [] g = "tower_of_hanoi" -> "Medium"
      [] g = "traveling_salesman" -> "Hard"

Categories == {"All", "Pathfinding", "Board Games", "Optimization"}
Difficulties == {"All", "Easy", "Medium", "Hard"}

\* texts the user types into the search field
Searches == {
    <<>>,
    <<"q","u","e","e","n">>,
    <<"Q","U","E","E","N">>,
    <<"T","o","u","r">>,
    <<"c","h","e","s","s">>,
    <<"a","i">>,
    <<"o","f"," ","h">>,
    <<"x","y","z">> }

CategoryMatch(g, category) == category = "All" \/ CardCategory(g) = category

\* not search_text or search_text in title or search_text in desc
TextMatch(g, search_text) ==
    \/ search_text = <<>>
    \/ Contains(Lower(CardTitle(g)), search_text)
    \/ Contains(Lower(CardDesc(g)), search_text)

\* filter_games without lowering the search text
FilterGames_NoLower(search_text, category) ==
    [g \in Games |-> CategoryMatch(g, category) /\ TextMatch(g, search_text)]

\* filter_games(search_text, category): the flag each card's setVisible gets
FilterGames(search_text, category) ==
    LET lowered == Lower(search_text)
    IN  [g \in Games |-> CategoryMatch(g, category) /\ TextMatch(g, lowered)]

\* emit_filter_changed with the widgets' new contents, delivered to filter_games
EmitFilterChanged(category, difficulty, search_text) ==
    /\ Running
    /\ category_combo' = category
    /\ difficulty_combo' = difficulty
    /\ search_input' = search_text
    /\ visible' = FilterGames(search_text, category)
    /\ last_launch' = NoLaunch
    /\ UNCHANGED <<store, last_set, from_disk, profile_vars, theme_vars, history_vars, exit_status>>

\* category_combo.currentTextChanged
SetCategory(category) ==
    /\ category # category_combo
    /\ EmitFilterChanged(category, difficulty_combo, search_input)

\* difficulty_combo.currentTextChanged
SetDifficulty(difficulty) ==
    /\ difficulty # difficulty_combo
    /\ EmitFilterChanged(category_combo, difficulty, search_input)

\* search_input.textChanged
SetSearch(search_text) ==
    /\ search_text # search_input
    /\ EmitFilterChanged(category_combo, difficulty_combo, search_text)


----------------------------------------------------------------------------
(* Start-up and the specifications                                         *)

\* ThemeSwitcher.__init__ and DashboardWindow.__init__ read the theme
LoadTheme(s) == Value(s, K_THEME, DefaultTheme)

\* first start: no key was ever set; the widgets as DashboardWindow.__init__
\* leaves them
Init ==
    /\ store = EmptyStore
    /\ last_set = [k \in Keys |-> <<>>]
    /\ from_disk = {}
    /\ spawn_ok = 0
    /\ spawn_failed = 0
    /\ children = 0
    /\ exit_status = <<>>
    /\ name_label = LoadName(store)
    /\ level_label = LoadLevel(store)
    /\ games_label = LoadGames(store, from_disk)
    /\ progress_bar = LoadProgress(store, from_disk)
    /\ current_theme = LoadTheme(store)
    /\ applied_theme = ApplyTheme(LoadTheme(store), store)
    /\ category_combo = "All"
    /\ difficulty_combo = "All"
    /\ search_input = <<>>
    /\ visible = [g \in Games |-> TRUE]
    /\ last_launch = NoLaunch

\* the process exits and the dashboard is started again on the same store,
\* the new process reading the keys fd as file text
StartAgain(fd) ==
    /\ UNCHANGED <<store, last_set, history_vars>>
    /\ from_disk' = fd
    /\ exit_status' = <<>>
    /\ name_label' = LoadName(store)
    /\ level_label' = LoadLevel(store)
    /\ games_label' = LoadGames(store, from_disk')
    /\ progress_bar' = LoadProgress(store, from_disk')
    /\ current_theme' = LoadTheme(store)
    /\ applied_theme' = ApplyTheme(LoadTheme(store), store)
    /\ category_combo' = "All"
    /\ difficulty_combo' = "All"
    /\ search_input' = <<>>
    /\ visible' = [g \in Games |-> TRUE]
    /\ last_launch' = NoLaunch

\* a restart on a store that hands the objects back as they were set
Restart == StartAgain({})

\* a restart on the store's INI file: the integers come back as text
RestartFromFile == StartAgain(TextKeys(store))

\* progress values of a store written before this session
SeedProgress == {0, 50, 93, 95, 98, 100}

\* a start on a store that holds a complete profile record
SeededInit ==
    /\ \E level \in Levels, progress \in SeedProgress :
          /\ store = [k \in {K_NAME, K_LEVEL, K_GAMES, K_PROGRESS} |->
                        CASE k = K_NAME -> "Ada"
                          [] k = K_LEVEL -> level
                          [] k = K_GAMES -> 0
                          [] k = K_PROGRESS -> progress]
          /\ last_set = [k \in Keys |->
                        CASE k = K_NAME -> <<"Ada">>
                          [] k = K_LEVEL -> <<level>>
                          [] k = K_GAMES -> <<0>>
                          [] k = K_PROGRESS -> <<progress>>
                          [] OTHER -> <<>>]
    /\ from_disk = {}
    /\ spawn_ok = 0
    /\ spawn_failed = 0
    /\ children = 0
    /\ exit_status = <<>>
    /\ name_label = LoadName(store)
    /\ level_label = LoadLevel(store)
    /\ games_label = LoadGames(store, from_disk)
    /\ progress_bar = LoadProgress(store, from_disk)
    /\ current_theme = LoadTheme(store)
    /\ applied_theme = ApplyTheme(LoadTheme(store), store)
    /\ category_combo = "All"
    /\ difficulty_combo = "All"
    /\ search_input = <<>>
    /\ visible = [g \in Games |-> TRUE]
    /\ last_launch = NoLaunch

\* a spawned game process ends, normally or not (code is its exit code, which
\* nobody reads): the dashboard kept no handle and has no handler for it
ChildExit(code) ==
    /\ children > 0
    /\ children' = children - 1
    /\ UNCHANGED <<dashboard_vars, last_set, from_disk, last_launch, spawn_ok, spawn_failed,
                   exit_status>>

\* exit codes app.exec_() returns
LoopExitCodes == {0, 2}

\* sys.exit(1) closing the except clause under __main__
UnhandledStatus == 1

\* a process that ends with status 0 whatever sys.exit was given
SysExit_Success(exit_code) == 0

\* sys.exit(main()): the status the process ends with
SysExit(exit_code) == exit_code % 256

\* the event loop ends: main returns app.exec_()'s code to sys.exit
Quit(exit_code) ==
    /\ Running
    /\ exit_status' = <<[status |-> SysExit(exit_code), escaped |-> FALSE,
                         logged |-> FALSE, loop_code |-> <<exit_code>>]>>
    /\ last_launch' = NoLaunch
    /\ UNCHANGED <<dashboard_vars, last_set, from_disk, history_vars>>

\* a start in which main() raises an Exception: the except clause under
\* __main__ logs it, prints it and calls sys.exit(1)
MainRaises ==
    /\ exit_status' = <<[status |-> SysExit(UnhandledStatus), escaped |-> TRUE,
                         logged |-> TRUE, loop_code |-> <<>>]>>
    /\ last_launch' = NoLaunch
    /\ UNCHANGED <<dashboard_vars, last_set, from_disk, history_vars>>

Next ==
    \/ \E g \in Games, venv_exists \in BOOLEAN, script_exists \in BOOLEAN,
          popen \in PopenResults :
           Launch(g, venv_exists, script_exists, popen)
    \/ \E name \in Names, level \in Levels : SaveProfile(name, level)
    \/ CancelEdit
    \/ \E theme_name \in {"dark", "light"} : ChangeTheme(theme_name)
    \/ \E color \in Colors : OpenCustomTheme(color)
    \/ CancelCustomTheme
    \/ Restart

Spec == Init /\ [][Next]_vars

\* the handlers together with restarts that load the store from its file
StoreNext ==
    \/ Next
    \/ RestartFromFile

StoreSpec == Init /\ [][StoreNext]_vars

\* the same handlers on a store that holds a profile already
SeededSpec == SeededInit /\ [][Next]_vars

\* the profile and the launcher alone, over a long run of launches
ProfileNext ==
    \/ \E g \in Games, venv_exists \in BOOLEAN, popen \in PopenResults :
           \* the long run is explored with the game scripts in place
           LaunchLong(g, venv_exists, TRUE, popen)
    \/ \E name \in Names, level \in Levels : SaveProfile(name, level)
    \/ CancelEdit
    \/ Restart

ProfileSpec == Init /\ [][ProfileNext]_vars

\* the handlers together with the game processes they spawned
ChildNext ==
    \/ Next
    \/ \E code \in {0, 1} : ChildExit(code)

ChildSpec == Init /\ [][ChildNext]_vars

\* the handlers together with the ways the dashboard process ends
MainNext ==
    \/ Next
    \/ \E exit_code \in LoopExitCodes : Quit(exit_code)
    \/ MainRaises

MainSpec == Init /\ [][MainNext]_vars

\* the filter widget alone
FilterNext ==
    \/ \E category \in Categories : SetCategory(category)
    \/ \E difficulty \in Difficulties : SetDifficulty(difficulty)
    \/ \E search_text \in Searches : SetSearch(search_text)
    \/ Restart

FilterSpec == Init /\ [][FilterNext]_vars

\* progress values a Beginner profile was left with by earlier sessions
ClimbProgress == {0, 1, 4, 5, 25, 50, 94, 95, 96, 99, 100}

\* a start on a stored Beginner profile
ClimbInit ==
    /\ \E progress \in ClimbProgress :
          /\ store = [k \in {K_NAME, K_LEVEL, K_GAMES, K_PROGRESS} |->
                        CASE k = K_NAME -> "Ada"
                          [] k = K_LEVEL -> "Beginner"
                          [] k = K_GAMES -> 0
                          [] k = K_PROGRESS -> progress]
          /\ last_set = [k \in Keys |->
                        CASE k = K_NAME -> <<"Ada">>
                          [] k = K_LEVEL -> <<"Beginner">>
                          [] k = K_GAMES -> <<0>>
                          [] k = K_PROGRESS -> <<progress>>
                          [] OTHER -> <<>>]
    /\ from_disk = {}
    /\ spawn_ok = 0
    /\ spawn_failed = 0
    /\ children = 0
    /\ exit_status = <<>>
    /\ name_label = LoadName(store)
    /\ level_label = LoadLevel(store)
    /\ games_label = LoadGames(store, from_disk)
    /\ progress_bar = LoadProgress(store, from_disk)
    /\ current_theme = LoadTheme(store)
    /\ applied_theme = ApplyTheme(LoadTheme(store), store)
    /\ category_combo = "All"
    /\ difficulty_combo = "All"
    /\ search_input = <<>>
    /\ visible = [g \in Games |-> TRUE]
    /\ last_launch = NoLaunch

\* a START GAME click whose Popen call returns, in a run of such launches
LaunchClimb(g, venv_exists) ==
    /\ Running
    /\ Value(store, K_GAMES, DefaultGames) < MaxClimb
    /\ LaunchGame(g, venv_exists, TRUE, "ok")
    /\ UNCHANGED <<theme_vars, filter_vars, exit_status>>

\* the player keeps launching, never edits the profile, and every spawn
\* returns
ClimbNext ==
    \/ \E g \in Games, venv_exists \in BOOLEAN : LaunchClimb(g, venv_exists)
    \/ CancelEdit
    \/ Restart

\* a launch that can be made is made
ClimbSpec ==
    /\ ClimbInit
    /\ [][ClimbNext]_vars
    /\ WF_vars(\E g \in Games, venv_exists \in BOOLEAN : LaunchClimb(g, venv_exists))


----------------------------------------------------------------------------
(* Properties                                                              *)

\* the persisted record: the integers and the level the read sites obtain
PersistedGames == Value(store, K_GAMES, DefaultGames)
PersistedProgress == Value(store, K_PROGRESS, DefaultProgress)
PersistedLevel == Value(store, K_LEVEL, DefaultLevel)

\* C1: from the empty store, after any launches, profile edits and restarts,
\* the persisted profile/level_progress is an integer in [0,100].
C1_ProgressInRange ==
    K_PROGRESS \in DOMAIN store =>
        store[K_PROGRESS] \in Int /\ 0 <= store[K_PROGRESS] /\ store[K_PROGRESS] <= 100

\* a launch that read progress 100 and wrote it back clamped
C1_Witness ==
    /\ last_launch # NoLaunch
    /\ last_launch.progress_read = <<100>>
    /\ K_PROGRESS \in DOMAIN store
    /\ store[K_PROGRESS] = 100

\* C2: a launch whose Popen call returns raises the persisted games_played by
\* exactly 1, and no handler (launch, failed launch, profile edit, theme
\* change, restart) ever lowers it.
C2_GamesPlayedMonotone ==
    [][ /\ PersistedGames' >= PersistedGames
        /\ (spawn_ok' = spawn_ok + 1 => PersistedGames' = PersistedGames + 1) ]_vars

\* a successful launch made after a theme change
C2_Witness ==
    /\ last_launch # NoLaunch
    /\ last_launch.popen = "ok"
    /\ K_THEME \in DOMAIN store
    /\ K_GAMES \in DOMAIN store
    /\ store[K_GAMES] = spawn_ok
    /\ spawn_ok >= 2

\* C3: games_played counts apparent successes only: it equals its initial
\* value (0) plus the number of Popen calls that returned, a launch whose
\* Popen call raises leaving it unchanged.
C3_CountsSuccessesOnly == PersistedGames = spawn_ok

\* C4: with the bundled interpreter missing the launch runs the system
\* interpreter, still calls Popen, and shows an error box only when Popen
\* raised or the level-up step raised, never for the missing path.
C4_FallbackInterpreter ==
    (last_launch # NoLaunch /\ ~last_launch.venv_found) =>
        /\ last_launch.cmd[1] = SysExecutable
        /\ last_launch.spawns = 1
        /\ ~last_launch.propagated
        /\ (last_launch.dialog # NoDialog =>
               \/ last_launch.popen \in PopenRaises
               \/ last_launch.dialog[3] = LevelUpRaises)

\* a launch without the bundled interpreter that spawned and showed no box
C4_Witness ==
    /\ last_launch # NoLaunch
    /\ ~last_launch.venv_found
    /\ last_launch.popen = "ok"
    /\ last_launch.cmd = <<SysExecutable, ScriptPath("tic_tac_toe")>>
    /\ last_launch.dialog = NoDialog

\* C5: at level Beginner with progress p, p + 5 >= 100, one successful launch
\* leaves level Intermediate and progress 0, persisted and displayed; nothing
\* above 100 is carried over.
C5_PromotionResets ==
    [][ ( /\ spawn_ok' = spawn_ok + 1
          /\ PersistedLevel = "Beginner"
          /\ level_label = "Beginner"
          /\ PersistedProgress + 5 >= 100 )
        => ( /\ K_LEVEL \in DOMAIN store' /\ store'[K_LEVEL] = "Intermediate"
             /\ K_PROGRESS \in DOMAIN store' /\ store'[K_PROGRESS] = 0
             /\ level_label' = "Intermediate"
             /\ progress_bar' = 0 ) ]_vars

\* the launch from Beginner at 98 has promoted
C5_Witness ==
    /\ last_launch # NoLaunch
    /\ last_launch.popen = "ok"
    /\ last_launch.level_text = "Beginner"
    /\ last_launch.progress_read = <<98>>
    /\ store[K_LEVEL] = "Intermediate"
    /\ store[K_PROGRESS] = 0
    /\ level_label = "Intermediate"
    /\ progress_bar = 0

\* C6: when Popen raises, the exception does not leave the handler: the
\* launch ends in the error box that names the game and carries the
\* exception's text.
C6_SpawnFailureReported ==
    (last_launch # NoLaunch /\ last_launch.popen \in PopenRaises) =>
        /\ ~last_launch.propagated
        /\ last_launch.dialog =
              <<"Launch Error", <<"Error launching ", last_launch.game>>,
                last_launch.popen>>

\* a launch of Knight's Tour whose Popen call raised PermissionError
C6_Witness ==
    /\ last_launch # NoLaunch
    /\ last_launch.popen = "PermissionError"
    /\ last_launch.game = "Knight's Tour"
    /\ last_launch.dialog[3] = "PermissionError"


\* defaults a caller may pass to SETTINGS.value for a key
ProbeDefaults(k) ==
    CASE k = K_NAME -> {"Guest User", "Ada", "Bob"}
      [] k = K_LEVEL -> Levels
      [] k = K_GAMES -> 0..MaxSession
      [] k = K_PROGRESS -> {0, 25, 30, 100}
      [] k = K_THEME -> {"dark", "light", "custom"}
      [] k = K_COLOR -> {"#3D5AFE", "#ff0000"}

\* value(k, d) handing back the object x itself
AsSet(r, x) == r.form = "object" /\ r.value = x

\* value(k, d) handing back the file text of the integer x
AsText(r, x) == r.form = "text" /\ r.value = Str(x)

SameLetter(a, b) ==
    \/ a = b
    \/ \E i \in 1..Len(UpperChars) : {a, b} = {UpperChars[i], LowerChars[i]}

\* needle occurs in hay, compared without regard to case
OccursIgnoringCase(needle, hay) ==
    \E i \in 0..(Len(hay) - Len(needle)) :
        \A j \in 1..Len(needle) : SameLetter(hay[i + j], needle[j])

\* C8: after any filter changes a card is visible exactly when the selected
\* category is "All" or the card's, and the search text is empty or occurs,
\* case-insensitively, in the card's title or description; difficulty and
\* earlier filters play no part.
C8_VisibleIffMatches ==
    \A g \in Games :
        visible[g] <=>
            /\ (category_combo = "All" \/ category_combo = CardCategory(g))
            /\ \/ search_input = <<>>
               \/ OccursIgnoringCase(search_input, CardTitle(g))
               \/ OccursIgnoringCase(search_input, CardDesc(g))

\* upper-case search under a category and a difficulty: the queens card is
\* shown, the other board game and the chess card of another category hidden
C8_Witness ==
    /\ search_input = <<"Q", "U", "E", "E", "N">>
    /\ category_combo = "Board Games"
    /\ difficulty_combo = "Easy"
    /\ visible["eight_queens"]
    /\ ~visible["tic_tac_toe"]
    /\ ~visible["knights_tour"]

\* C9: a successful launch without promotion sets the persisted progress p to
\* min(100, p + 5); for p + 5 < 100 that is exactly p + 5, and the level is
\* unchanged.
C9_ProgressStep ==
    [][ ( /\ spawn_ok' = spawn_ok + 1
          /\ ~(level_label = "Beginner" /\ PersistedProgress + 5 >= 100) )
        => ( /\ K_PROGRESS \in DOMAIN store'
             /\ store'[K_PROGRESS] =
                   (IF PersistedProgress + 5 > 100 THEN 100 ELSE PersistedProgress + 5)
             /\ (PersistedProgress + 5 < 100 =>
                    /\ store'[K_PROGRESS] = PersistedProgress + 5
                    /\ PersistedLevel' = PersistedLevel) ) ]_vars

\* the first launch moved the default 25 to 30
C9_Witness ==
    /\ last_launch # NoLaunch
    /\ last_launch.popen = "ok"
    /\ last_launch.progress_read = <<25>>
    /\ K_PROGRESS \in DOMAIN store
    /\ store[K_PROGRESS] = 30
    /\ PersistedLevel = "Beginner"

\* a step of the launch handler: the only handler that writes games_played
LaunchStep == PersistedGames' # PersistedGames

\* C10: promotion is the single rule Beginner -> Intermediate: at level
\* Intermediate, Advanced or Expert no launch changes the level and progress
\* 100 stays 100, and a launch that changes the level changes it to
\* Intermediate.
C10_SinglePromotionRule ==
    [][ LaunchStep =>
          /\ (PersistedLevel \in {"Intermediate", "Advanced", "Expert"} =>
                 /\ PersistedLevel' = PersistedLevel
                 /\ level_label' = level_label
                 /\ (PersistedProgress = 100 => PersistedProgress' = 100))
          /\ (PersistedLevel' # PersistedLevel => PersistedLevel' = "Intermediate") ]_vars

\* an Advanced profile launched at progress 100: still Advanced, still 100
C10_Witness ==
    /\ last_launch # NoLaunch
    /\ last_launch.popen = "ok"
    /\ last_launch.level_text = "Advanced"
    /\ last_launch.progress_read = <<100>>
    /\ PersistedLevel = "Advanced"
    /\ PersistedProgress = 100


\* C11: no retries: every launch calls Popen exactly once, with the
\* interpreter resolved before the call, whether Popen returns or raises and
\* whether or not the fallback was taken; a failed spawn is not tried again
\* with the other interpreter.
C11_OneSpawnAttempt ==
    last_launch # NoLaunch =>
        /\ last_launch.spawns = 1
        /\ last_launch.cmd[1] =
              (IF last_launch.venv_found THEN VenvPython ELSE SysExecutable)
        /\ spawn_ok + spawn_failed = PersistedGames

\* Popen raised on the bundled interpreter: one call, none with sys.executable
C11_Witness ==
    /\ last_launch # NoLaunch
    /\ last_launch.popen = "PermissionError"
    /\ last_launch.venv_found
    /\ last_launch.cmd[1] = VenvPython
    /\ last_launch.spawns = 1
    /\ spawn_failed = 2

\* what a successful launch does to the profile, given the state before it
SuccessEffect ==
    /\ PersistedGames' = PersistedGames + 1
    /\ IF level_label = "Beginner" /\ PersistedProgress + 5 >= 100
       THEN /\ PersistedLevel' = "Intermediate" /\ level_label' = "Intermediate"
            /\ PersistedProgress' = 0 /\ progress_bar' = 0
       ELSE /\ PersistedLevel' = PersistedLevel /\ level_label' = level_label
            /\ PersistedProgress' =
                  (IF PersistedProgress + 5 > 100 THEN 100 ELSE PersistedProgress + 5)
            /\ progress_bar' = PersistedProgress'
    /\ name_label' = name_label

\* C12: after a failed launch the dashboard stays usable: in every later
\* state launching any game is enabled, and a launch whose Popen call then
\* returns does to the profile what any successful launch does.
C12_UsableAfterFailure ==
    /\ [](spawn_failed > 0 /\ exit_status = NotExited /\ PersistedGames < MaxSession
            => \A g \in Games : ENABLED Launch(g, TRUE, TRUE, "ok"))
    /\ [][spawn_ok' = spawn_ok + 1 => SuccessEffect]_vars

\* after a failed launch of Tic Tac Toe at Beginner 95, a launch of Tower of
\* Hanoi returned and promoted
C12_Witness ==
    /\ spawn_failed = 1
    /\ spawn_ok = 1
    /\ last_launch # NoLaunch
    /\ last_launch.popen = "ok"
    /\ last_launch.game = "Tower of Hanoi"
    /\ last_launch.progress_read = <<95>>
    /\ PersistedGames = 2
    /\ PersistedLevel = "Intermediate"
    /\ PersistedProgress = 0

\* the directory of a game's script, by the game's name
GameDir(game_name) ==
    CASE game_name = "Eight Queens Puzzle" -> "eight_queen_game"
      [] game_name = "Knight's Tour" -> "knights_tour_game"
      [] game_name = "Tic Tac Toe" -> "tic_tac_toe_game"
      [] game_name = "Tower of Hanoi" -> "tower_of_hanoi_game"
      [] game_name = "Traveling Salesman" -> "traveling_salesman_game"

\* C13: every launch calls Popen with the two-element command (resolved
\* interpreter, games/<game_dir>/main.py of the game launched) and nothing
\* more; whether the script exists is not checked: with the script missing
\* Popen is still called and, when it returns, the launch takes the success
\* path.
C13_TwoElementCommand ==
    last_launch # NoLaunch =>
        /\ Len(last_launch.cmd) = 2
        /\ last_launch.cmd[1] \in {VenvPython, SysExecutable}
        /\ last_launch.cmd[2] = <<"games", GameDir(last_launch.game), "main.py">>
        /\ last_launch.spawns = 1
        /\ (~last_launch.script_found /\ last_launch.popen = "ok" =>
               /\ last_launch.progress_read # <<>>
               /\ spawn_ok >= 1
               /\ children >= 1)

\* Traveling Salesman launched with its script missing: Popen returned and the
\* launch counted, progress 25 -> 30
C13_Witness ==
    /\ last_launch # NoLaunch
    /\ ~last_launch.script_found
    /\ last_launch.popen = "ok"
    /\ last_launch.cmd =
          <<VenvPython, <<"games", "traveling_salesman_game", "main.py">>>>
    /\ last_launch.progress_read = <<25>>
    /\ PersistedProgress = 30
    /\ spawn_ok = 1
    /\ last_launch.dialog = NoDialog


\* the persisted name, "Guest User" until one is saved
PersistedName == IF K_NAME \in DOMAIN store THEN store[K_NAME] ELSE "Guest User"

\* C14: the profile persists across restarts: a restart changes no persisted
\* key, the profile displayed after it is the persisted record, and it leaves
\* alone what the profile-writing handlers read (the store and the level
\* label, which always shows the persisted level), so that a sequence of
\* operations ends in the same persisted record with or without restarts.
C14_RestartKeepsProfile ==
    /\ [](level_label = PersistedLevel)
    /\ [][Restart =>
            /\ store' = store
            /\ level_label' = level_label
            /\ name_label' = PersistedName'
            /\ level_label' = PersistedLevel'
            /\ games_label' = Str(PersistedGames')
            /\ progress_bar' = PersistedProgress']_vars

\* restarted after fifteen launches on a profile never edited, the last a
\* promotion from Beginner 95: the window shows Guest User, Intermediate,
\* 15 games, progress 0
C14_Witness ==
    /\ last_launch = NoLaunch
    /\ spawn_ok = 15
    /\ K_NAME \notin DOMAIN store
    /\ name_label = "Guest User"
    /\ games_label = "15"
    /\ PersistedGames = 15
    /\ level_label = "Intermediate"
    /\ PersistedLevel = "Intermediate"
    /\ progress_bar = 0
    /\ PersistedProgress = 0

\* C15: launches are fire-and-forget: a launch whose Popen call returns
\* completes with the child still running and the window still handling
\* clicks, so that children accumulate and a further launch is enabled while
\* they run; a child's exit, whatever its code, changes neither the stored
\* profile nor any widget of the dashboard.
C15_FireAndForget ==
    /\ [][spawn_ok' = spawn_ok + 1 =>
            /\ children' = children + 1
            /\ exit_status' = NotExited]_vars
    /\ [](children > 0 /\ exit_status = NotExited /\ PersistedGames < MaxSession
            => \A g \in Games : ENABLED Launch(g, TRUE, TRUE, "ok"))
    /\ [][children' < children =>
            /\ UNCHANGED dashboard_vars
            /\ UNCHANGED <<spawn_ok, spawn_failed, exit_status>>]_vars

\* three games launched, one has exited, two are still running; the profile
\* holds what the three launches wrote
C15_Witness ==
    /\ spawn_ok = 3
    /\ children = 2
    /\ PersistedGames = 3
    /\ PersistedProgress = 40
    /\ last_launch # NoLaunch


\* C16: the persisted record is well-typed in every reachable state: the
\* level is one of Beginner, Intermediate, Advanced, Expert, games_played is
\* an integer >= 0 and level_progress is an integer in [0,100].
C16_RecordWellTyped ==
    /\ PersistedLevel \in {"Beginner", "Intermediate", "Advanced", "Expert"}
    /\ PersistedGames \in Int
    /\ PersistedGames >= 0
    /\ PersistedProgress \in Int
    /\ PersistedProgress >= 0
    /\ PersistedProgress <= 100

\* all three keys written: level Expert saved, then fifteen launches took the
\* progress from 25 to 100
C16_Witness ==
    /\ {K_LEVEL, K_GAMES, K_PROGRESS} \subseteq DOMAIN store
    /\ store[K_LEVEL] = "Expert"
    /\ store[K_GAMES] = 15
    /\ store[K_PROGRESS] = 100


\* C17: an exception that escapes main() is logged and the process ends with
\* status 1; when none escapes, the process ends with the exit code of the
\* event loop.
C17_ExitStatus ==
    exit_status # NotExited =>
        IF exit_status[1].escaped
        THEN exit_status[1].logged /\ exit_status[1].status = 1
        ELSE <<exit_status[1].status>> = exit_status[1].loop_code

\* a start in which main() raised, after a session that launched a game
C17_Witness ==
    /\ exit_status # NotExited
    /\ exit_status[1].escaped
    /\ exit_status[1].logged
    /\ exit_status[1].status = 1
    /\ exit_status[1].loop_code = <<>>
    /\ spawn_ok = 1


\* C18: a launch whose Popen call raises leaves the persisted and the
\* displayed level and level progress as they were and triggers no promotion,
\* also from Beginner with progress 95 or more.
C18_FailureKeepsLevel ==
    [][spawn_failed' = spawn_failed + 1 =>
          /\ PersistedLevel' = PersistedLevel
          /\ PersistedProgress' = PersistedProgress
          /\ level_label' = level_label
          /\ progress_bar' = progress_bar
          /\ (K_PROGRESS \in DOMAIN store' <=> K_PROGRESS \in DOMAIN store)
          /\ (K_LEVEL \in DOMAIN store' <=> K_LEVEL \in DOMAIN store)
          /\ last_launch'.progress_read = <<>>]_vars

\* a failed launch at Beginner 95, where a successful one promotes
C18_Witness ==
    /\ last_launch # NoLaunch
    /\ last_launch.popen = "FileNotFoundError"
    /\ spawn_failed = 1
    /\ spawn_ok = 0
    /\ PersistedLevel = "Beginner"
    /\ level_label = "Beginner"
    /\ PersistedProgress = 95
    /\ progress_bar = 95
    /\ last_launch.dialog # NoDialog


\* no profile key has been written
NoProfileKey == DOMAIN store \cap {K_NAME, K_LEVEL, K_GAMES, K_PROGRESS} = {}

\* C19: while no profile key is set, every read site sees the same defaults
\* (level Beginner, games_played 0, level_progress 25): the window shows
\* them and the launch handler starts from them, so that the first successful
\* launch leaves games_played = 1, level_progress = 30 = displayed progress + 5
\* and level Beginner.
C19_SameDefaults ==
    /\ [](NoProfileKey =>
            /\ level_label = "Beginner"
            /\ games_label = "0"
            /\ progress_bar = 25
            /\ LoadLevel(store) = "Beginner"
            /\ LoadGames(store, from_disk) = "0"
            /\ LoadProgress(store, from_disk) = 25
            /\ IntOf(ValueRead(store, from_disk, K_GAMES, LaunchDefaultGames)) = 0
            /\ IntOf(ValueRead(store, from_disk, K_PROGRESS, LaunchDefaultProgress)) = 25)
    /\ [][NoProfileKey /\ spawn_ok' = spawn_ok + 1 =>
            /\ store'[K_GAMES] = 1
            /\ store'[K_PROGRESS] = 30
            /\ store'[K_PROGRESS] = progress_bar + 5
            /\ progress_bar' = 30
            /\ K_LEVEL \notin DOMAIN store'
            /\ level_label' = "Beginner"
            /\ last_launch'.progress_read = <<progress_bar>>]_vars

\* the first launch on the empty profile returned: 1 game, progress 30
C19_Witness ==
    /\ spawn_ok = 1
    /\ spawn_failed = 0
    /\ last_launch # NoLaunch
    /\ last_launch.progress_read = <<25>>
    /\ DOMAIN store \cap {K_NAME, K_LEVEL, K_GAMES, K_PROGRESS} = {K_GAMES, K_PROGRESS}
    /\ store[K_GAMES] = 1
    /\ store[K_PROGRESS] = 30
    /\ progress_bar = 30
    /\ level_label = "Beginner"


\* a Beginner profile resting at full progress
BeginnerFull == PersistedLevel = "Beginner" /\ PersistedProgress >= 100

\* C20 as stated: in every state between user operations, level = Beginner
\* implies level_progress < 100.
C20_BeginnerNeverFull == PersistedLevel = "Beginner" => PersistedProgress < 100

\* C20, amended: a launch whose Popen call returns never leaves a Beginner
\* profile at 100 (it promotes and resets instead), and a Beginner profile
\* comes to rest at 100 only by a profile save that selects Beginner while a
\* higher level stands at 100: that step changes neither the progress nor the
\* games counter and spawns nothing.
C20_BeginnerFullOnlyBySave ==
    /\ [][spawn_ok' = spawn_ok + 1 => ~BeginnerFull']_vars
    /\ [][BeginnerFull' /\ ~BeginnerFull =>
            /\ PersistedLevel # "Beginner"
            /\ PersistedProgress = 100
            /\ PersistedProgress' = 100
            /\ PersistedGames' = PersistedGames
            /\ level_label' = "Beginner"
            /\ UNCHANGED history_vars]_vars

\* Beginner was saved over a higher level at 100, and the next launch read
\* 100 at Beginner and promoted to Intermediate 0
C20_Witness ==
    /\ last_launch # NoLaunch
    /\ last_launch.popen = "ok"
    /\ last_launch.progress_read = <<100>>
    /\ last_launch.level_text = "Beginner"
    /\ PersistedLevel = "Intermediate"
    /\ PersistedProgress = 0


\* C21: in every state between operations the level label of the profile
\* widget, which the promotion rule reads, equals the persisted profile/level,
\* and the value of the progress bar equals the persisted
\* profile/level_progress.
C21_WidgetMatchesStore ==
    /\ level_label = PersistedLevel
    /\ progress_bar = PersistedProgress

\* a launch that promoted from Beginner 95: label and store say Intermediate,
\* bar and store say 0
C21_Witness ==
    /\ last_launch # NoLaunch
    /\ last_launch.progress_read = <<95>>
    /\ last_launch.level_text = "Beginner"
    /\ level_label = "Intermediate"
    /\ K_LEVEL \in DOMAIN store
    /\ store[K_LEVEL] = "Intermediate"
    /\ progress_bar = 0
    /\ store[K_PROGRESS] = 0

\* C22: after every completed launch the games-played count shown in the
\* profile widget equals the persisted profile/games_played.
C22_GamesLabelCurrent ==
    last_launch # NoLaunch => games_label = Str(PersistedGames)


\* C23: from a Beginner profile with any level progress, with no profile
\* edit and with launches that keep succeeding, level Intermediate is
\* eventually reached, at the latest by the 20th successful launch, and the
\* level never is Beginner again afterwards.
C23_ReachesIntermediate ==
    /\ <>(PersistedLevel = "Intermediate" /\ level_label = "Intermediate")
    /\ [](spawn_ok >= 20 => PersistedLevel = "Intermediate")
    /\ [][PersistedLevel # "Beginner" =>
             PersistedLevel' # "Beginner" /\ level_label' # "Beginner"]_vars

\* the slowest climb: from progress 0 the 20th launch read 95 and promoted
C23_Witness ==
    /\ spawn_ok = 20
    /\ PersistedGames = 20
    /\ last_launch # NoLaunch
    /\ last_launch.progress_read = <<95>>
    /\ last_launch.level_text = "Beginner"
    /\ PersistedLevel = "Intermediate"
    /\ PersistedProgress = 0


\* the step leaves key k of the store as it was, set or not
KeyUnchanged(k) ==
    /\ (k \in DOMAIN store' <=> k \in DOMAIN store)
    /\ (k \in DOMAIN store => store'[k] = store[k])

\* C24: saving a profile edit sets exactly profile/name and profile/level, to
\* the values entered, and leaves profile/games_played,
\* profile/level_progress, theme and custom_theme_color as they were;
\* cancelling the edit dialog changes no persisted key and no displayed value.
C24_SaveWritesNameAndLevel ==
    /\ [][\A name \in Names, level \in Levels :
            SaveProfile(name, level) =>
                /\ K_NAME \in DOMAIN store' /\ store'[K_NAME] = name
                /\ K_LEVEL \in DOMAIN store' /\ store'[K_LEVEL] = level
                /\ \A k \in {K_GAMES, K_PROGRESS, K_THEME, K_COLOR} : KeyUnchanged(k)
                /\ name_label' = name
                /\ level_label' = level]_vars
    /\ [][CancelEdit =>
            /\ \A k \in Keys : KeyUnchanged(k)
            /\ UNCHANGED <<profile_vars, theme_vars, filter_vars>>]_vars

\* Expert saved on a profile with two launches and a custom theme behind it:
\* counter, progress, theme and colour stand
C24_Witness ==
    /\ last_launch = NoLaunch
    /\ DOMAIN store = Keys
    /\ store[K_NAME] = "Ada"
    /\ store[K_LEVEL] = "Expert"
    /\ level_label = "Expert"
    /\ name_label = "Ada"
    /\ store[K_GAMES] = 2
    /\ store[K_PROGRESS] = 35
    /\ progress_bar = 35
    /\ store[K_THEME] = "custom"
    /\ store[K_COLOR] = "#ff0000"


\* C25: after any sequence of theme actions the persisted theme (dark until
\* one is written) is the theme most recently applied; no theme action
\* changes a profile/* key; choosing a valid custom colour sets
\* custom_theme_color to it and theme to custom; cancelling the colour picker
\* leaves theme and custom_theme_color as they were.
C25_ThemePersisted ==
    /\ [](/\ applied_theme[1] = (IF K_THEME \in DOMAIN store THEN store[K_THEME] ELSE "dark")
          /\ current_theme = applied_theme[1])
    /\ [][(\/ \E theme_name \in {"dark", "light"} : ChangeTheme(theme_name)
           \/ \E color \in Colors : OpenCustomTheme(color)
           \/ CancelCustomTheme) =>
              /\ \A k \in {K_NAME, K_LEVEL, K_GAMES, K_PROGRESS} : KeyUnchanged(k)
              /\ UNCHANGED profile_vars]_vars
    /\ [][\A theme_name \in {"dark", "light"} :
            ChangeTheme(theme_name) =>
                /\ K_THEME \in DOMAIN store' /\ store'[K_THEME] = theme_name
                /\ applied_theme' = <<theme_name>>
                /\ KeyUnchanged(K_COLOR)]_vars
    /\ [][\A color \in Colors :
            OpenCustomTheme(color) =>
                /\ K_COLOR \in DOMAIN store' /\ store'[K_COLOR] = color
                /\ K_THEME \in DOMAIN store' /\ store'[K_THEME] = "custom"
                /\ applied_theme' = <<"custom", color>>]_vars
    /\ [][CancelCustomTheme =>
            /\ KeyUnchanged(K_THEME)
            /\ KeyUnchanged(K_COLOR)
            /\ UNCHANGED theme_vars]_vars

\* after a launch, a custom colour was chosen and then the light theme: the
\* store says light and keeps the colour, the profile keys stand
C25_Witness ==
    /\ last_launch = NoLaunch
    /\ {K_THEME, K_COLOR, K_GAMES, K_PROGRESS} \subseteq DOMAIN store
    /\ store[K_THEME] = "light"
    /\ store[K_COLOR] = "#ff0000"
    /\ applied_theme = <<"light">>
    /\ current_theme = "light"
    /\ store[K_GAMES] = 1
    /\ store[K_PROGRESS] = 30
    /\ K_LEVEL \notin DOMAIN store

====
